---- MODULE Spec2Model ----
(***************************************************************************)
(* Model of scripts/batch_stock_llm_analyzer.py: the batch scheduler       *)
(* (BatchStockLLMAnalyzer.run_batch_analysis, _analyze_with_retry, the two *)
(* keyword classifiers, _generate_summary) and the delivery fail-over of   *)
(* EmailSender.send_email.                                                 *)
(*                                                                         *)
(* Text is modelled as a sequence of tokens.  A Python substring test      *)
(* `indicator in error_msg.lower()` becomes: some token of the message,    *)
(* lower-cased, equals the indicator.  The Chinese literals of the source  *)
(* are written in ASCII.                                                   *)
(***************************************************************************)
EXTENDS Integers, Sequences, FiniteSets, TLC

VARIABLES
    \* ---- StockAnalysisConfig / batch_settings (fixed by the constructor)
    symbols,                 \* self.config.symbols
    max_concurrent,          \* self.max_concurrent
    delay_between_requests,  \* self.delay_between_requests
    max_retries,             \* self.max_retries
    batch_delay_multiplier,  \* self.batch_delay_multiplier
    stop_on_quota_exceeded,  \* self.stop_on_quota_exceeded
    \* ---- run_batch_analysis
    pc,                      \* position of the single worker
    results,                 \* self.results
    successful,              \* local counter `successful`
    failed,                  \* local counter `failed`
    batch_idx,               \* 1-based index of the batch being processed
    i,                       \* 1-based index of the job inside its batch
    result,                  \* value returned by _analyze_with_retry
    batch_result,            \* the BatchAnalysisResult that is returned
    \* ---- _analyze_with_retry
    attempt,                 \* loop variable `attempt`
    last_error,              \* local `last_error`
    \* ---- observation of the run (not program state)
    attempts,                \* the outcomes of the current job's attempts
    sleeps,                  \* the time.sleep calls made for the current job
    pacing,                  \* the inter-job and inter-batch time.sleep calls
    called,                  \* the jobs submitted to the engine
    tripped,                 \* the quota branch (line 890) has been taken
    trip_job,                \* the first job whose result took that branch
    fault_jobs,              \* the jobs with at least one failed attempt
    first_fault,             \* the first failed attempt of the run
    faults,                  \* number of failed attempts so far
    fault_budget,            \* number of attempts the engine may fail
    run_no,                  \* which call of run_batch_analysis on this instance
    results_before,          \* self.results when that call began
    \* ---- EmailSender
    email_config,            \* the constructor's email_config
    enabled,                 \* self.enabled
    smtp_server,             \* self.smtp_server
    smtp_port,               \* self.smtp_port
    use_tls,                 \* self.use_tls
    use_ssl,                 \* self.use_ssl
    mail_entry,              \* the method of the sender the caller calls
    mail_pc,                 \* position inside send_email
    configs,                 \* local `configs` of send_email
    cfg_idx,                 \* index of the configuration being tried
    tried,                   \* per configuration tried: its outcome
    transmitted,             \* number of successful send_message calls
    open_conns,              \* connections opened and not closed
    mail_ret,                \* return value of send_email
    reported                 \* the configurations listed in the final error report

batch_vars == <<symbols, max_concurrent, delay_between_requests, max_retries,
                batch_delay_multiplier, stop_on_quota_exceeded, pc, results,
                successful, failed, batch_idx, i, result, batch_result,
                attempt, last_error, attempts, sleeps, pacing, called,
                tripped, trip_job, fault_jobs, first_fault, faults,
                fault_budget, run_no, results_before>>

mail_vars == <<email_config, enabled, smtp_server, smtp_port, use_tls, use_ssl,
               mail_entry, mail_pc,
               configs, cfg_idx, tried, transmitted, open_conns, mail_ret,
               reported>>

vars == <<batch_vars, mail_vars>>

(***************************************************************************)
(* Bounds of the model.                                                    *)
(***************************************************************************)
MaxJobs == 5
MaxRetries == 2
MaxFaults == 2
\* Jobs and failed attempts in a run that ends with the mail notification.
MaxDeliverJobs == 2
MaxDeliverFaults == 1
\* Jobs and failed attempts of an analyzer whose run_batch_analysis is
\* called twice.
MaxRerunJobs == 2
MaxRerunFaults == 1
\* Length of the results lists _generate_summary is applied to.
MaxSummaryLen == 6

\* The values Init draws max_concurrent and delay_between_requests from.
ConcurrentChoices == {1, 2}
DelayChoices == {1}
RetryDelayChoices == {1, 2, 3}

\* self.batch_settings.get('batch_delay_multiplier', 2)
DefaultBatchDelayMultiplier == 2

(***************************************************************************)
(* Text.                                                                   *)
(***************************************************************************)
None == <<>>

\* str.lower() on the tokens that occur in engine messages.
Lower(tok) ==
    CASE tok = "Quota Exceeded" -> "quota exceeded"
      [] tok = "QUOTA_EXCEEDED" -> "quota_exceeded"
      [] tok = "You exceeded your current quota" -> "exceeded your current quota"
      [] tok = "Limit: 200" -> "limit: 200"
      [] tok = "FREE_TIER_REQUESTS" -> "free_tier_requests"
      [] tok = "Rate Limit" -> "rate limit"
      [] tok = "Too Many Requests" -> "too many requests"
      [] tok = "Throttled" -> "throttled"
      [] OTHER -> tok

lower(msg) == [k \in 1..Len(msg) |-> Lower(msg[k])]

\* `indicator in error_lower`
Contains(error_lower, indicator) ==
    \E k \in 1..Len(error_lower) : error_lower[k] = indicator

rate_limit_indicators ==
    {"rate limit", "rate_limit", "too many requests", "429",
     "quota exceeded", "quota_exceeded", "throttled",
     "api limit", "api_limit", "request limit"}

quota_exceeded_indicators ==
    {"quota exceeded", "quota_exceeded", "exceeded your current quota",
     "limit: 200", "free_tier_requests"}

_is_rate_limit_error(error_msg) ==
    \E indicator \in rate_limit_indicators :
        Contains(lower(error_msg), indicator)

_is_quota_exceeded_error(error_msg) ==
    \E indicator \in quota_exceeded_indicators :
        Contains(lower(error_msg), indicator)

(***************************************************************************)
(* Results.                                                                *)
(***************************************************************************)
\* A job is named by its position in the job list.  The text of a symbol
\* matters only to _detect_market_type, which looks at its shape.
TickerShape(s) ==
    CASE s % 3 = 1 -> "letters"
      [] s % 3 = 2 -> "six digits"
      [] OTHER -> "four digits"

\* lines 1081-1091: ^[A-Z]{1,5}$ -> US, ^\d{6}$ -> A, ^\d{4,5}(\.HK)?$ -> HK,
\* anything else -> US
_detect_market_type(s) ==
    CASE TickerShape(s) = "letters" -> "US"
      [] TickerShape(s) = "six digits" -> "A"
      [] TickerShape(s) = "four digits" -> "HK"
      [] OTHER -> "US"

\* price_stats, reduced to what _generate_summary reads of it:
\* .get('price_volatility', 0), and .get('price_range', {}) as a sequence
\* that is empty when the range is missing or empty and holds the
\* .get('min', 0) and .get('max', 0) of the range otherwise.
PriceStats(volatility, range) ==
    [price_volatility |-> volatility, price_range |-> range]

PriceRange(lo, hi) == <<[min |-> lo, max |-> hi]>>

\* price_stats={}
EmptyStats == PriceStats(0, <<>>)

\* The price_stats found in the engine's raw_state for job s (lines
\* 1051-1060): none for odd s, a volatility and a range for even s.
EngineStats(s) ==
    IF s % 2 = 1 THEN EmptyStats ELSE PriceStats(s, PriceRange(1, 2))

\* StockAnalysisResult with the fields the scheduler and the summary read.
AnalysisResult(symbol, market_type, price_stats, error) ==
    [symbol |-> symbol, market_type |-> market_type,
     price_stats |-> price_stats, error |-> error]

\* The result built for a job: lines 1062-1069 without an error, and
\* market_type="unknown", price_stats={} with one (lines 896-903, 985-992,
\* 1008-1015, 1072-1079).
StockAnalysisResult(symbol, error) ==
    IF error = None
    THEN AnalysisResult(symbol, _detect_market_type(symbol), EngineStats(symbol), None)
    ELSE AnalysisResult(symbol, "unknown", EmptyStats, error)

NoResult == StockAnalysisResult(0, None)

\* error="配额超限，未处理" (line 902)
PlaceholderError == <<"quota over limit, not processed">>

\* error=f"配额超限: {error_str}" (line 991)
QuotaError(error_str) == <<"quota over limit: ">> \o error_str

\* error=f"重试{self.max_retries}次后仍失败: {last_error}" (line 1014)
ExhaustedError(retries, error) ==
    <<"still failing after retries: ", ToString(retries)>> \o error

(***************************************************************************)
(* The outcomes of one call self._analyze_single_stock(symbol) (line 958): *)
(* it returns a result without error, it returns a result whose error is   *)
(* the text of an exception caught inside it (lines 1071-1079), or an      *)
(* exception leaves it and is caught at line 970.                          *)
(***************************************************************************)
EngineMessages ==
    { <<"Connection reset by peer">>,
      <<"429", "Too Many Requests">>,
      <<"429", "Quota Exceeded">> }

Outcome(mode, msg) == [mode |-> mode, msg |-> msg]

(***************************************************************************)
(* run_batch_analysis: batches.                                            *)
(***************************************************************************)
Min(a, b) == IF a <= b THEN a ELSE b

\* batch_size = min(self.max_concurrent, len(self.config.symbols))
batch_size == Min(max_concurrent, Len(symbols))

\* Faulty variant of symbol_batches: only the full windows are kept
symbol_batchesFullOnly ==
    [b \in 1..(Len(symbols) \div batch_size) |->
        SubSeq(symbols, (b - 1) * batch_size + 1, b * batch_size)]

\* lines 872-873: the slices symbols[k : k + batch_size] for k in
\* range(0, len(symbols), batch_size); a slice ends at the end of the list.
symbol_batches ==
    [b \in 1..((Len(symbols) + batch_size - 1) \div batch_size) |->
        SubSeq(symbols, (b - 1) * batch_size + 1,
               Min(b * batch_size, Len(symbols)))]

\* len(symbol_batches)
NumBatches == Len(symbol_batches)

\* len(symbol_batch) of batch b (1-based)
BatchLen(b) == Len(symbol_batches[b])

\* Faulty variant of global_idx: the position inside the batch
global_idxWithinBatch == i

\* global_idx = (batch_idx - 1) * batch_size + i
global_idx == (batch_idx - 1) * batch_size + i

\* the job being processed: the i-th of enumerate(symbol_batch, 1)
symbol == symbol_batches[batch_idx][i]

(***************************************************************************)
(* _analyze_with_retry: waits.                                             *)
(***************************************************************************)
\* Faulty variant of MaxAttempts: range(self.max_retries + 2)
MaxAttemptsOneMore(retries) == retries + 2

\* Faulty variant of MaxAttempts: range(self.max_retries)
MaxAttemptsOffByOne(retries) == retries

\* range(self.max_retries + 1)
MaxAttempts(retries) == retries + 1

\* Faulty variant of RetryWait: the exponent is the index of the failed attempt
RetryWaitOfFailedAttempt(base, k) == base * (2 ^ (k - 1))

\* wait_time = self.delay_between_requests * (2 ** attempt)   (line 954)
RetryWait(base, k) == base * (2 ^ k)

\* Faulty variant of RateLimitWait: the factor 5 is dropped
RateLimitWaitNoFactor(base, k) == base * (2 ^ k)

\* wait_time = self.delay_between_requests * 5 * (2 ** attempt)   (line 999)
RateLimitWait(base, k) == base * 5 * (2 ^ k)

\* time.sleep(self.delay_between_requests)   (line 1004)
ErrorWait(base) == base

\* One time.sleep: its place in the code, the job and the attempt it follows.
Sleep(kind, job, after, dur) ==
    [kind |-> kind, job |-> job, after |-> after, dur |-> dur]

\* lines 951-956: the wait at the head of a retry
PreSleep ==
    IF attempt > 0
    THEN <<Sleep("retry", global_idx, attempt - 1,
                 RetryWait(delay_between_requests, attempt))>>
    ELSE <<>>

\* lines 994-1004: the wait inside the except branch
PostSleep(error_str) ==
    IF _is_rate_limit_error(error_str)
    THEN IF attempt < max_retries
         THEN <<Sleep("ratelimit", global_idx, attempt,
                      RateLimitWait(delay_between_requests, attempt))>>
         ELSE <<>>
    ELSE IF attempt < max_retries
         THEN <<Sleep("error", global_idx, attempt,
                      ErrorWait(delay_between_requests))>>
         ELSE <<>>

(***************************************************************************)
(* _generate_summary (lines 1093-1134).  The quotients are kept as         *)
(* fractions: average_volatility is vol_num / vol_den and                  *)
(* analysis_success_rate is rate_num / rate_den; `divisors` lists the      *)
(* divisors of the divisions the call performs.  The no-success dictionary *)
(* has the key 'error' only; its other fields here are fillers.            *)
(***************************************************************************)
SelectOk(rs) == SelectSeq(rs, LAMBDA r : r.error = None)

NoSuccessMarker == <<"no successful analysis result">>

\* price_ranges[:5]
TopCount == 5

RECURSIVE SumVolatility(_)
\* avg_volatility after the loop of lines 1104-1121
SumVolatility(rs) ==
    IF rs = <<>> THEN 0
    ELSE Head(rs).price_stats.price_volatility + SumVolatility(Tail(rs))

\* Faulty variant of market_distribution: a market is entered with 1 and not
\* incremented again
market_distributionNotIncremented(ok) ==
    [m \in {ok[k].market_type : k \in 1..Len(ok)} |-> 1]

\* lines 1106-1108: the number of successful results per market_type
market_distribution(ok) ==
    [m \in {ok[k].market_type : k \in 1..Len(ok)} |->
        Cardinality({k \in 1..Len(ok) : ok[k].market_type = m})]

RECURSIVE price_ranges(_)
\* lines 1114-1121: one entry per successful result with a non-empty range
price_ranges(ok) ==
    IF ok = <<>> THEN <<>>
    ELSE (IF Head(ok).price_stats.price_range # <<>>
          THEN <<[symbol |-> Head(ok).symbol,
                  min |-> Head(ok).price_stats.price_range[1].min,
                  max |-> Head(ok).price_stats.price_range[1].max]>>
          ELSE <<>>)
         \o price_ranges(Tail(ok))

RECURSIVE InsertBeforeEqual(_, _)
\* Faulty variant of InsertByMax: x goes before the entries with an equal key
InsertBeforeEqual(s, x) ==
    IF s = <<>> THEN <<x>>
    ELSE IF Head(s).max > x.max
         THEN <<Head(s)>> \o InsertBeforeEqual(Tail(s), x)
         ELSE <<x>> \o s

RECURSIVE InsertByMax(_, _)
\* x is put after every entry whose key is at least its own
InsertByMax(s, x) ==
    IF s = <<>> THEN <<x>>
    ELSE IF Head(s).max >= x.max
         THEN <<Head(s)>> \o InsertByMax(Tail(s), x)
         ELSE <<x>> \o s

RECURSIVE SortByMaxDescending(_)
\* line 1126: price_ranges.sort(key=lambda x: x['max'], reverse=True), a
\* stable sort: entries come out by decreasing key, equal keys in the order
\* they had in the list
SortByMaxDescending(s) ==
    IF s = <<>> THEN <<>>
    ELSE InsertByMax(SortByMaxDescending(SubSeq(s, 1, Len(s) - 1)), s[Len(s)])

\* line 1131: price_ranges[:5]
FirstFive(s) == SubSeq(s, 1, Min(TopCount, Len(s)))

\* Faulty variant of _generate_summary: the test of line 1097 is missing
_generate_summaryUnguarded(rs) ==
    [error |-> None,
     market_distribution |-> market_distribution(SelectOk(rs)),
     vol_num |-> SumVolatility(SelectOk(rs)),
     vol_den |-> Len(SelectOk(rs)),
     top_price_ranges |->
         FirstFive(SortByMaxDescending(price_ranges(SelectOk(rs)))),
     total_analyzed |-> Len(SelectOk(rs)),
     rate_num |-> Len(SelectOk(rs)) * 100,
     rate_den |-> Len(rs),
     divisors |-> <<Len(SelectOk(rs)), Len(rs)>>]

_generate_summary(rs) ==
    IF SelectOk(rs) = <<>>
    THEN [error |-> NoSuccessMarker,
          market_distribution |-> market_distribution(<<>>),
          vol_num |-> 0, vol_den |-> 1,
          top_price_ranges |-> <<>>,
          total_analyzed |-> 0,
          rate_num |-> 0, rate_den |-> 1,
          divisors |-> <<>>]
    ELSE [error |-> None,
          market_distribution |-> market_distribution(SelectOk(rs)),
          vol_num |-> SumVolatility(SelectOk(rs)),
          vol_den |-> Len(SelectOk(rs)),
          top_price_ranges |->
              FirstFive(SortByMaxDescending(price_ranges(SelectOk(rs)))),
          total_analyzed |-> Len(SelectOk(rs)),
          rate_num |-> Len(SelectOk(rs)) * 100,
          rate_den |-> Len(rs),
          divisors |-> <<Len(SelectOk(rs)), Len(rs)>>]

NoBatchResult ==
    [total_symbols |-> 0, successful_analyses |-> 0, failed_analyses |-> 0,
     results |-> <<>>, summary |-> _generate_summary(<<>>), returned |-> FALSE]

(***************************************************************************)
(* run_batch_analysis and _analyze_with_retry: the steps of the worker.    *)
(***************************************************************************)
config_vars == <<symbols, max_concurrent, delay_between_requests, max_retries,
                 batch_delay_multiplier, stop_on_quota_exceeded, fault_budget,
                 run_no, results_before>>

NoFault == Outcome("none", None)

\* lines 863-875: counters, batches, entry of the first batch.  With an
\* empty job list batch_size is 0 and range(0, 0, 0) raises ValueError.
StartRun ==
    /\ pc = "ready"
    /\ successful' = 0
    /\ failed' = 0
    /\ IF batch_size = 0
       THEN pc' = "raised" /\ UNCHANGED <<batch_idx, i>>
       ELSE pc' = "loop" /\ batch_idx' = 1 /\ i' = 1
    /\ UNCHANGED <<config_vars, results, result, batch_result, attempt,
                   last_error, attempts, sleeps, pacing, called, tripped,
                   trip_job, fault_jobs, first_fault, faults, mail_vars>>

\* line 883 and line 947: the call of _analyze_with_retry for the next job
CallAnalyzeWithRetry ==
    /\ pc = "loop"
    /\ attempt' = 0
    /\ last_error' = None
    /\ result' = NoResult
    /\ attempts' = <<>>
    /\ sleeps' = <<>>
    /\ pc' = "attempt"
    /\ UNCHANGED <<config_vars, results, successful, failed, batch_idx, i,
                   batch_result, pacing, called, tripped, trip_job,
                   fault_jobs, first_fault, faults, mail_vars>>

\* The end of a failed iteration: the next iteration, or, after the last
\* one, the failure result of lines 1006-1015.
NextAttempt(error) ==
    IF attempt + 1 < MaxAttempts(max_retries)
    THEN /\ attempt' = attempt + 1
         /\ pc' = "attempt"
         /\ UNCHANGED result
    ELSE /\ attempt' = attempt
         /\ pc' = "returned"
         /\ result' = StockAnalysisResult(symbol, ExhaustedError(max_retries, error))

\* What the run's observer records of a failed attempt.
Failure(o) ==
    /\ faults < fault_budget
    /\ faults' = faults + 1
    /\ attempts' = Append(attempts, o)
    /\ called' = called \cup {global_idx}
    /\ fault_jobs' = fault_jobs \cup {global_idx}
    /\ first_fault' = IF faults = 0 THEN o ELSE first_fault


\* Faulty variant of AttemptSucceeds: the `return result` of line 964 is
\* missing, so the loop goes on while attempts are left
AttemptSucceedsKeepsRetrying ==
    /\ pc = "attempt"
    /\ sleeps' = sleeps \o PreSleep
    /\ attempts' = Append(attempts, Outcome("ok", None))
    /\ called' = called \cup {global_idx}
    /\ result' = StockAnalysisResult(symbol, None)
    /\ IF attempt + 1 < MaxAttempts(max_retries)
       THEN attempt' = attempt + 1 /\ pc' = "attempt"
       ELSE attempt' = attempt /\ pc' = "returned"
    /\ UNCHANGED <<config_vars, results, successful, failed, batch_idx, i,
                   batch_result, last_error, pacing, tripped,
                   trip_job, fault_jobs, first_fault, faults, mail_vars>>

\* lines 951-964: the attempt returns a result without error
AttemptSucceeds ==
    /\ pc = "attempt"
    /\ sleeps' = sleeps \o PreSleep
    /\ attempts' = Append(attempts, Outcome("ok", None))
    /\ called' = called \cup {global_idx}
    /\ result' = StockAnalysisResult(symbol, None)
    /\ pc' = "returned"
    /\ UNCHANGED <<config_vars, results, successful, failed, batch_idx, i,
                   batch_result, attempt, last_error, pacing, tripped,
                   trip_job, fault_jobs, first_fault, faults, mail_vars>>

\* lines 951-968: the attempt returns a result with an error
AttemptReturnsError ==
    /\ pc = "attempt"
    /\ \E m \in EngineMessages :
        /\ Failure(Outcome("error", m))
        /\ sleeps' = sleeps \o PreSleep
        /\ last_error' = m
        /\ NextAttempt(m)
    /\ UNCHANGED <<config_vars, results, successful, failed, batch_idx, i,
                   batch_result, pacing, tripped, trip_job, mail_vars>>

\* lines 951-958 and 970-1004: the attempt raises
AttemptRaises ==
    /\ pc = "attempt"
    /\ \E m \in EngineMessages :
        /\ Failure(Outcome("raise", m))
        /\ last_error' = m
        /\ IF _is_quota_exceeded_error(m)
           THEN /\ sleeps' = sleeps \o PreSleep
                /\ result' = StockAnalysisResult(symbol, QuotaError(m))
                /\ pc' = "returned"
                /\ UNCHANGED attempt
           ELSE /\ sleeps' = sleeps \o PreSleep \o PostSleep(m)
                /\ NextAttempt(m)
    /\ UNCHANGED <<config_vars, results, successful, failed, batch_idx, i,
                   batch_result, pacing, tripped, trip_job, mail_vars>>

\* lines 895-903: one placeholder per symbol of self.config.symbols[global_idx:]
Placeholders(from) ==
    [k \in 1..(Len(symbols) - from) |->
        StockAnalysisResult(symbols[from + k], PlaceholderError)]

\* Faulty variant of QuotaStop: the rate-limit classifier is consulted
QuotaStopOnRateLimit(r) ==
    stop_on_quota_exceeded /\ _is_rate_limit_error(r.error)

\* Faulty variant of ResultsAfterTrip: the list is replaced by the placeholders
ResultsAfterTripReplaced(rs, from) == Placeholders(from)

\* lines 895-903: the placeholders are appended to self.results
ResultsAfterTrip(rs, from) == rs \o Placeholders(from)

\* Faulty variant of QuotaStop: self.stop_on_quota_exceeded is not consulted
QuotaStopIgnoresFlag(r) == _is_quota_exceeded_error(r.error)

\* line 890: the test that ends the inner loop
QuotaStop(r) ==
    stop_on_quota_exceeded /\ _is_quota_exceeded_error(r.error)

\* One pacing time.sleep: its place in the code and the job it follows.
Pace(kind, job, dur) == [kind |-> kind, job |-> job, dur |-> dur]

\* Faulty variant of WaitsBeforeNextJob: the wait follows every job
WaitsAfterEveryJob == TRUE

\* line 912: `if i < len(symbol_batch)`, the condition of the inter-job wait
WaitsBeforeNextJob == i < BatchLen(batch_idx)

\* lines 885-914: the result of a job is counted and stored
HandleResult ==
    /\ pc = "returned"
    /\ IF result.error # None
       THEN /\ failed' = failed + 1
            /\ UNCHANGED successful
       ELSE /\ successful' = successful + 1
            /\ UNCHANGED failed
    /\ IF result.error # None /\ QuotaStop(result)
       THEN /\ results' = ResultsAfterTrip(results, global_idx)
            /\ tripped' = TRUE
            /\ trip_job' = IF tripped THEN trip_job ELSE global_idx
            /\ pc' = "batch_end"
            /\ UNCHANGED <<pacing, i>>
       ELSE /\ results' = Append(results, result)
            /\ UNCHANGED <<tripped, trip_job>>
            /\ pacing' = IF WaitsBeforeNextJob
                         THEN Append(pacing,
                                  Pace("job", global_idx, delay_between_requests))
                         ELSE pacing
            /\ IF i < BatchLen(batch_idx)
               THEN /\ i' = i + 1
                    /\ pc' = "loop"
               ELSE /\ pc' = "batch_end"
                    /\ UNCHANGED i
    /\ UNCHANGED <<config_vars, batch_idx, result, batch_result, attempt,
                   last_error, attempts, sleeps, called, fault_jobs,
                   first_fault, faults, mail_vars>>

\* Faulty variant of batch_delay: the multiplier is left out
batch_delayNoMultiplier == delay_between_requests

\* line 918: batch_delay = self.delay_between_requests * self.batch_delay_multiplier
batch_delay == delay_between_requests * batch_delay_multiplier

\* lines 916-920 and the head of the outer loop
EndBatch ==
    /\ pc = "batch_end"
    /\ IF batch_idx < NumBatches
       THEN /\ pacing' = Append(pacing, Pace("batch", global_idx, batch_delay))
            /\ batch_idx' = batch_idx + 1
            /\ i' = 1
            /\ pc' = "loop"
       ELSE /\ pc' = "finish"
            /\ UNCHANGED <<pacing, batch_idx, i>>
    /\ UNCHANGED <<config_vars, results, successful, failed, result,
                   batch_result, attempt, last_error, attempts, sleeps,
                   called, tripped, trip_job, fault_jobs, first_fault,
                   faults, mail_vars>>

\* Faulty variant of FinishRun: the summary filters self.results in place
FinishRunFiltersResults ==
    /\ pc = "finish"
    /\ results' = SelectOk(results)
    /\ batch_result' =
           [total_symbols |-> Len(symbols),
            successful_analyses |-> successful,
            failed_analyses |-> failed,
            results |-> SelectOk(results),
            summary |-> _generate_summary(results),
            returned |-> TRUE]
    /\ pc' = IF enabled THEN "save" ELSE "done"
    /\ UNCHANGED <<config_vars, successful, failed, batch_idx, i,
                   result, attempt, last_error, attempts, sleeps, pacing,
                   called, tripped, trip_job, fault_jobs, first_fault,
                   faults, mail_vars>>

\* lines 922-943: summary, BatchAnalysisResult, _save_results, return.
\* With an enabled sender _save_results goes on to the mail notification
\* (line 1179) before run_batch_analysis returns.
FinishRun ==
    /\ pc = "finish"
    /\ batch_result' =
           [total_symbols |-> Len(symbols),
            successful_analyses |-> successful,
            failed_analyses |-> failed,
            results |-> results,
            summary |-> _generate_summary(results),
            returned |-> TRUE]
    /\ pc' = IF enabled THEN "save" ELSE "done"
    /\ UNCHANGED <<config_vars, results, successful, failed, batch_idx, i,
                   result, attempt, last_error, attempts, sleeps, pacing,
                   called, tripped, trip_job, fault_jobs, first_fault,
                   faults, mail_vars>>

\* A further call of run_batch_analysis on the same instance (lines
\* 861-875).  The locals start afresh; self.results is assigned only in
\* __init__ (line 839), so the call starts with the list the previous call
\* left.  No attribute records that the quota branch was taken.
RunAgain ==
    /\ pc = "done"
    /\ run_no = 1
    /\ run_no' = run_no + 1
    /\ results_before' = results
    /\ successful' = 0
    /\ failed' = 0
    /\ IF batch_size = 0
       THEN pc' = "raised" /\ UNCHANGED <<batch_idx, i>>
       ELSE pc' = "loop" /\ batch_idx' = 1 /\ i' = 1
    /\ result' = NoResult
    /\ batch_result' = NoBatchResult
    /\ attempt' = 0
    /\ last_error' = None
    /\ attempts' = <<>>
    /\ sleeps' = <<>>
    /\ pacing' = <<>>
    /\ called' = {}
    /\ tripped' = FALSE
    /\ trip_job' = 0
    /\ fault_jobs' = {}
    /\ first_fault' = NoFault
    /\ UNCHANGED <<symbols, max_concurrent, delay_between_requests, max_retries,
                   batch_delay_multiplier, stop_on_quota_exceeded, fault_budget,
                   results, faults, mail_vars>>

(***************************************************************************)
(* EmailSender.__init__ (lines 379-435).                                   *)
(***************************************************************************)
\* A server name is a sequence of tokens; `"163.com" in self.smtp_server`
\* is Contains without lower-casing.
Server163 == <<"smtp.", "163.com">>
ServerOther == <<"smtp.", "example.com">>

EmailConfig(flag, server, port, tls, ssl, user, password, from, to) ==
    [enabled |-> flag, smtp_server |-> server, smtp_port |-> port,
     use_tls |-> tls, use_ssl |-> ssl, smtp_username |-> user,
     smtp_password |-> password, from_email |-> from, to_emails |-> to]

\* The configurations a constructor may be given: complete, or with one of
\* the mandatory fields empty.
EmailConfigs ==
    { EmailConfig(f, s, p, t, l, c[1], c[2], c[3], c[4]) :
        f \in BOOLEAN, s \in {Server163, ServerOther, <<>>}, p \in {587, 465},
        t \in BOOLEAN, l \in BOOLEAN,
        c \in { <<"user", "secret", "a@x", <<"b@y">> >>,
                <<"", "secret", "a@x", <<"b@y">> >>,
                <<"user", "", "a@x", <<"b@y">> >>,
                <<"user", "secret", "", <<"b@y">> >>,
                <<"user", "secret", "a@x", <<>> >> } }

\* Faulty variant of EmailSenderEnabled: the recipient list is not checked
EmailSenderEnabledWithoutRecipients(c) ==
    /\ c.enabled
    /\ c.smtp_server # <<>>
    /\ c.smtp_username # ""
    /\ c.smtp_password # ""
    /\ c.from_email # ""

\* self.enabled at the end of __init__
EmailSenderEnabled(c) ==
    /\ c.enabled
    /\ c.smtp_server # <<>>
    /\ c.smtp_username # ""
    /\ c.smtp_password # ""
    /\ c.from_email # ""
    /\ c.to_emails # <<>>

(***************************************************************************)
(* EmailSender.send_email (lines 437-553).                                 *)
(***************************************************************************)
SmtpConfig(port, ssl, tls, name) ==
    [port |-> port, use_ssl |-> ssl, use_tls |-> tls, name |-> name]

\* Faulty variant of CandidateConfigs: the configured port and security
\* mode are used for every server
CandidateConfigsConfiguredOnly ==
    << SmtpConfig(smtp_port, use_ssl, use_tls, "original") >>

\* lines 480-494
CandidateConfigs ==
    IF Contains(smtp_server, "163.com")
    THEN << SmtpConfig(465, TRUE, FALSE, "SSL(465)"),
            SmtpConfig(25, FALSE, FALSE, "plain(25)"),
            SmtpConfig(587, FALSE, TRUE, "TLS(587)") >>
    ELSE << SmtpConfig(smtp_port, use_ssl, use_tls, "original") >>

sender_vars == <<email_config, enabled, smtp_server, smtp_port, use_tls, use_ssl>>

\* line 577 of send_analysis_results: the success rate shown in the report,
\* as the fraction num / den
success_rate(br) ==
    IF br.total_symbols > 0
    THEN [num |-> br.successful_analyses * 100, den |-> br.total_symbols]
    ELSE [num |-> 0, den |-> 1]

\* lines 449-497: the call, up to the head of the loop over configs
SendEmail ==
    /\ mail_pc = "idle"
    /\ IF ~enabled
       THEN /\ mail_ret' = "False"
            /\ mail_pc' = "returned"
            /\ UNCHANGED <<configs, cfg_idx>>
       ELSE /\ configs' = CandidateConfigs
            /\ cfg_idx' = 1
            /\ mail_pc' = "try"
            /\ UNCHANGED mail_ret
    /\ UNCHANGED <<sender_vars, mail_entry, reported, tried, transmitted, open_conns, batch_vars>>

\* Faulty variant of Steps: starttls is called whenever use_tls is set
StepsUpgradeOnSsl(config) ==
    <<"connect">>
    \o (IF config.use_tls THEN <<"starttls">> ELSE <<>>)
    \o <<"login", "send_message", "quit">>

\* The steps of one attempt, in the order of lines 502-518.
Steps(config) ==
    <<"connect">>
    \o (IF config.use_tls /\ ~config.use_ssl THEN <<"starttls">> ELSE <<>>)
    \o <<"login", "send_message", "quit">>

Attempt(config, step, outcome) ==
    [name |-> config.name, port |-> config.port, step |-> step, outcome |-> outcome]

\* Faulty variant of TryConfigSucceeds: the `return True` of line 521 is
\* missing, so the loop goes on to the next configuration
TryConfigSucceedsKeepsTrying ==
    /\ mail_pc = "try"
    /\ cfg_idx <= Len(configs)
    /\ tried' = Append(tried, Attempt(configs[cfg_idx], "quit", "success"))
    /\ transmitted' = transmitted + 1
    /\ cfg_idx' = cfg_idx + 1
    /\ UNCHANGED <<sender_vars, mail_entry, reported, configs, mail_pc, mail_ret, open_conns, batch_vars>>

\* lines 502-521: every step succeeds, send_email returns True
TryConfigSucceeds ==
    /\ mail_pc = "try"
    /\ cfg_idx <= Len(configs)
    /\ tried' = Append(tried, Attempt(configs[cfg_idx], "quit", "success"))
    /\ transmitted' = transmitted + 1
    /\ mail_ret' = "True"
    /\ mail_pc' = "returned"
    /\ UNCHANGED <<sender_vars, mail_entry, reported, configs, cfg_idx, open_conns, batch_vars>>

\* Faulty variant of TryConfigAuthFailure: the handler continues with the next
\* configuration instead of returning
TryConfigAuthFailureContinues ==
    /\ mail_pc = "try"
    /\ cfg_idx <= Len(configs)
    /\ tried' = Append(tried, Attempt(configs[cfg_idx], "login", "auth_failure"))
    /\ open_conns' = open_conns + 1
    /\ cfg_idx' = cfg_idx + 1
    /\ UNCHANGED <<sender_vars, mail_entry, reported, configs, mail_pc, mail_ret, transmitted, batch_vars>>

\* lines 513-514 and 523-531: login raises SMTPAuthenticationError
TryConfigAuthFailure ==
    /\ mail_pc = "try"
    /\ cfg_idx <= Len(configs)
    /\ tried' = Append(tried, Attempt(configs[cfg_idx], "login", "auth_failure"))
    /\ open_conns' = open_conns + 1
    /\ mail_ret' = "False"
    /\ mail_pc' = "returned"
    /\ UNCHANGED <<sender_vars, mail_entry, reported, configs, cfg_idx, transmitted, batch_vars>>

\* Faulty variant of TryConfigTransientFailure: the handler returns False
\* instead of continuing with the next configuration
TryConfigTransientFailureReturns ==
    /\ mail_pc = "try"
    /\ cfg_idx <= Len(configs)
    /\ \E k \in 1..Len(Steps(configs[cfg_idx])) :
        LET step == Steps(configs[cfg_idx])[k] IN
        /\ tried' = Append(tried, Attempt(configs[cfg_idx], step, "transient_failure"))
        /\ transmitted' = IF step = "quit" THEN transmitted + 1 ELSE transmitted
        /\ open_conns' \in
               CASE step = "connect" -> {open_conns}
                 [] step = "quit" -> {open_conns, open_conns + 1}
                 [] OTHER -> {open_conns + 1}
    /\ mail_ret' = "False"
    /\ mail_pc' = "returned"
    /\ UNCHANGED <<sender_vars, mail_entry, reported, configs, cfg_idx, batch_vars>>

\* Faulty variant of TryConfigTransientFailure: after a failure the loop
\* passes over the next configuration
TryConfigTransientFailureSkips ==
    /\ mail_pc = "try"
    /\ cfg_idx <= Len(configs)
    /\ \E k \in 1..Len(Steps(configs[cfg_idx])) :
        LET step == Steps(configs[cfg_idx])[k] IN
        /\ tried' = Append(tried, Attempt(configs[cfg_idx], step, "transient_failure"))
        /\ transmitted' = IF step = "quit" THEN transmitted + 1 ELSE transmitted
        /\ open_conns' \in
               CASE step = "connect" -> {open_conns}
                 [] step = "quit" -> {open_conns, open_conns + 1}
                 [] OTHER -> {open_conns + 1}
    /\ cfg_idx' = cfg_idx + 2
    /\ UNCHANGED <<sender_vars, mail_entry, reported, configs, mail_pc, mail_ret, batch_vars>>

\* lines 532-541: a step raises another exception; the loop continues.
\* A failure of connect opens no connection; a failure of quit comes after
\* the message was sent, and the library may or may not have closed the socket.
TryConfigTransientFailure ==
    /\ mail_pc = "try"
    /\ cfg_idx <= Len(configs)
    /\ \E k \in 1..Len(Steps(configs[cfg_idx])) :
        LET step == Steps(configs[cfg_idx])[k] IN
        /\ tried' = Append(tried, Attempt(configs[cfg_idx], step, "transient_failure"))
        /\ transmitted' = IF step = "quit" THEN transmitted + 1 ELSE transmitted
        /\ open_conns' \in
               CASE step = "connect" -> {open_conns}
                 [] step = "quit" -> {open_conns, open_conns + 1}
                 [] OTHER -> {open_conns + 1}
    /\ cfg_idx' = cfg_idx + 1
    /\ UNCHANGED <<sender_vars, mail_entry, reported, configs, mail_pc, mail_ret, batch_vars>>

\* lines 545-547: the "configurations tried" lines of the final error report
ConfigsReport(cs) == [k \in 1..Len(cs) |-> [name |-> cs[k].name, port |-> cs[k].port]]

\* Faulty variant of AllConfigsFailed: the failed delivery is also counted
\* as a failed analysis in the run result
AllConfigsFailedCountedInRun ==
    /\ mail_pc = "try"
    /\ cfg_idx > Len(configs)
    /\ mail_ret' = "False"
    /\ mail_pc' = "returned"
    /\ reported' = ConfigsReport(configs)
    /\ batch_result' = [batch_result EXCEPT !.failed_analyses = @ + 1]
    /\ UNCHANGED <<sender_vars, mail_entry, configs, cfg_idx, tried, transmitted,
                   open_conns, config_vars, pc, results, successful, failed,
                   batch_idx, i, result, attempt, last_error, attempts,
                   sleeps, pacing, called, tripped, trip_job, fault_jobs,
                   first_fault, faults>>

\* lines 543-553: every configuration failed
AllConfigsFailed ==
    /\ mail_pc = "try"
    /\ cfg_idx > Len(configs)
    /\ mail_ret' = "False"
    /\ mail_pc' = "returned"
    /\ reported' = ConfigsReport(configs)
    /\ UNCHANGED <<sender_vars, mail_entry, configs, cfg_idx, tried, transmitted,
                   open_conns, batch_vars>>

\* send_email called by a caller of the sender
CallSendEmail ==
    /\ mail_entry = "send_email"
    /\ SendEmail

\* lines 569-594: send_analysis_results called by a caller of the sender.
\* A disabled sender returns False at once; otherwise subject and body are
\* built and send_email is called.
CallSendAnalysisResults ==
    /\ mail_entry = "send_analysis_results"
    /\ pc = "ready"
    /\ mail_pc = "idle"
    /\ IF ~enabled
       THEN /\ mail_ret' = "False"
            /\ mail_pc' = "returned"
            /\ UNCHANGED <<sender_vars, mail_entry, configs, cfg_idx, reported,
                           tried, transmitted, open_conns, batch_vars>>
       ELSE SendEmail

\* lines 1178-1184 and 555-594: _save_results calls send_analysis_results,
\* which builds subject and body from batch_result and calls send_email
SendAnalysisResults ==
    /\ pc = "save"
    /\ SendEmail

\* lines 1186-1189 and 938-943: send_analysis_results has returned;
\* _save_results logs the outcome and run_batch_analysis returns batch_result
ReturnBatchResult ==
    /\ pc = "save"
    /\ mail_pc = "returned"
    /\ pc' = "done"
    /\ UNCHANGED <<config_vars, results, successful, failed, batch_idx, i,
                   result, batch_result, attempt, last_error, attempts,
                   sleeps, pacing, called, tripped, trip_job, fault_jobs,
                   first_fault, faults, mail_vars>>

(***************************************************************************)
(* Initial states.                                                         *)
(***************************************************************************)
\* EmailSender after construction from the configuration c.
Sender(c) ==
    /\ email_config = c
    /\ enabled = EmailSenderEnabled(c)
    /\ smtp_server = c.smtp_server
    /\ smtp_port = c.smtp_port
    /\ use_tls = c.use_tls
    /\ use_ssl = c.use_ssl
    /\ mail_pc = "idle"
    /\ configs = <<>>
    /\ cfg_idx = 0
    /\ tried = <<>>
    /\ transmitted = 0
    /\ open_conns = 0
    /\ mail_ret = "none"
    /\ reported = <<>>

\* email_config = {} : the default of StockAnalysisConfig (lines 55-56)
NoEmailConfig ==
    EmailConfig(FALSE, <<>>, 587, TRUE, FALSE, "", "", "", <<>>)

\* BatchStockLLMAnalyzer after construction (lines 836-859) with the job
\* list of n symbols.
Analyzer(n) ==
    /\ symbols = [k \in 1..n |-> k]
    /\ max_concurrent \in ConcurrentChoices
    /\ max_retries \in 0..MaxRetries
    /\ batch_delay_multiplier = DefaultBatchDelayMultiplier
    /\ stop_on_quota_exceeded \in BOOLEAN
    /\ pc = "ready"
    /\ results = <<>>
    /\ successful = 0
    /\ failed = 0
    /\ batch_idx = 0
    /\ i = 0
    /\ result = NoResult
    /\ batch_result = NoBatchResult
    /\ attempt = 0
    /\ last_error = None
    /\ attempts = <<>>
    /\ sleeps = <<>>
    /\ pacing = <<>>
    /\ called = {}
    /\ tripped = FALSE
    /\ trip_job = 0
    /\ fault_jobs = {}
    /\ first_fault = NoFault
    /\ faults = 0
    /\ run_no = 1
    /\ results_before = <<>>

\* A run over up to MaxJobs jobs in which the engine fails at most MaxFaults times.
Init ==
    /\ \E n \in 0..MaxJobs : Analyzer(n)
    /\ delay_between_requests \in DelayChoices
    /\ fault_budget = MaxFaults
    /\ Sender(NoEmailConfig)
    /\ mail_entry = "send_analysis_results"

Next ==
    \/ StartRun
    \/ CallAnalyzeWithRetry
    \/ AttemptSucceeds
    \/ AttemptReturnsError
    \/ AttemptRaises
    \/ HandleResult
    \/ EndBatch
    \/ FinishRun

Spec == Init /\ [][Next]_vars

\* A run over one job in which every attempt may fail.
RetryInit ==
    /\ Analyzer(1)
    /\ delay_between_requests \in RetryDelayChoices
    /\ fault_budget = MaxRetries + 1
    /\ Sender(NoEmailConfig)
    /\ mail_entry = "send_analysis_results"

RetrySpec == RetryInit /\ [][Next]_vars

\* A call of send_email or of send_analysis_results on a sender built from
\* any of EmailConfigs.
MailInit ==
    /\ Analyzer(0)
    /\ delay_between_requests \in DelayChoices
    /\ fault_budget = 0
    /\ \E c \in EmailConfigs : Sender(c)
    /\ mail_entry \in {"send_email", "send_analysis_results"}

MailNext ==
    \/ CallSendEmail
    \/ CallSendAnalysisResults
    \/ TryConfigSucceeds
    \/ TryConfigAuthFailure
    \/ TryConfigTransientFailure
    \/ AllConfigsFailed

MailSpec == MailInit /\ [][MailNext]_vars

\* A run of at most MaxDeliverJobs jobs followed by the mail notification of
\* _save_results, on a sender that is disabled, or enabled for a 163.com
\* server (three configurations) or for another server (one configuration).
DeliverEmailConfigs ==
    { c \in EmailConfigs :
        /\ c.smtp_server # <<>>
        /\ c.smtp_port = 587 /\ c.use_tls /\ ~c.use_ssl
        /\ c.smtp_username # "" /\ c.smtp_password # ""
        /\ c.from_email # "" /\ c.to_emails # <<>> }

DeliverInit ==
    /\ \E n \in 1..MaxDeliverJobs : Analyzer(n)
    /\ delay_between_requests \in DelayChoices
    /\ fault_budget = MaxDeliverFaults
    /\ \E c \in DeliverEmailConfigs : Sender(c)
    /\ mail_entry = "send_analysis_results"

DeliverNext ==
    \/ Next
    \/ SendAnalysisResults
    \/ TryConfigSucceeds
    \/ TryConfigAuthFailure
    \/ TryConfigTransientFailure
    \/ AllConfigsFailed
    \/ ReturnBatchResult

DeliverSpec == DeliverInit /\ [][DeliverNext]_vars

\* Two calls of run_batch_analysis on one analyzer, without mail delivery.
RerunInit ==
    /\ \E n \in 1..MaxRerunJobs : Analyzer(n)
    /\ delay_between_requests \in DelayChoices
    /\ fault_budget = MaxRerunFaults
    /\ Sender(NoEmailConfig)
    /\ mail_entry = "send_analysis_results"

RerunNext ==
    \/ Next
    \/ RunAgain

RerunSpec == RerunInit /\ [][RerunNext]_vars

\* The results _generate_summary is applied to: self.results at line 925.
\* Job k ended in one of four ways: it failed, or it succeeded with no price
\* statistics, with a price range of maximum 1, or with one of maximum 2.
ResultOfKind(k, kind) ==
    CASE kind = 1 ->
             StockAnalysisResult(k, ExhaustedError(0, <<"Connection reset by peer">>))
      [] kind = 2 ->
             AnalysisResult(k, _detect_market_type(k), EmptyStats, None)
      [] kind = 3 ->
             AnalysisResult(k, _detect_market_type(k), PriceStats(1, PriceRange(1, 1)), None)
      [] OTHER ->
             AnalysisResult(k, _detect_market_type(k), PriceStats(2, PriceRange(1, 2)), None)

\* The state at line 922 of a run over n jobs, one job per batch and no
\* retries, in which job k ended as kinds[k].
AfterJobs(n, kinds) ==
    LET rs == [k \in 1..n |-> ResultOfKind(k, kinds[k])]
        bad == {k \in 1..n : kinds[k] = 1}
        err == Outcome("error", <<"Connection reset by peer">>)
    IN  /\ symbols = [k \in 1..n |-> k]
        /\ stop_on_quota_exceeded = FALSE
        /\ results = rs
        /\ successful = n - Cardinality(bad)
        /\ failed = Cardinality(bad)
        /\ batch_idx = n
        /\ result = rs[n]
        /\ last_error = IF n \in bad THEN err.msg ELSE None
        /\ attempts = IF n \in bad THEN <<err>> ELSE <<Outcome("ok", None)>>
        /\ pacing = [k \in 1..(n - 1) |->
                         Pace("batch", k,
                              delay_between_requests * DefaultBatchDelayMultiplier)]
        /\ called = 1..n
        /\ tripped = FALSE
        /\ trip_job = 0
        /\ fault_jobs = bad
        /\ first_fault = IF bad = {} THEN NoFault ELSE err
        /\ faults = Cardinality(bad)

\* The state at line 922 of a run over one job whose only attempt failed
\* with a quota error and tripped the breaker: self.results is empty.
AfterTripOfOnlyJob ==
    LET err == Outcome("error", <<"429", "Quota Exceeded">>)
    IN  /\ symbols = <<1>>
        /\ stop_on_quota_exceeded = TRUE
        /\ results = <<>>
        /\ successful = 0
        /\ failed = 1
        /\ batch_idx = 1
        /\ result = StockAnalysisResult(1, ExhaustedError(0, err.msg))
        /\ last_error = err.msg
        /\ attempts = <<err>>
        /\ pacing = <<>>
        /\ called = {1}
        /\ tripped = TRUE
        /\ trip_job = 1
        /\ fault_jobs = {1}
        /\ first_fault = err
        /\ faults = 1

SummaryInit ==
    /\ max_concurrent = 1
    /\ max_retries = 0
    /\ batch_delay_multiplier = DefaultBatchDelayMultiplier
    /\ delay_between_requests \in DelayChoices
    /\ \/ \E n \in 1..MaxSummaryLen : \E kinds \in [1..n -> 1..4] :
              AfterJobs(n, kinds)
       \/ AfterTripOfOnlyJob
    /\ pc = "finish"
    /\ i = 1
    /\ batch_result = NoBatchResult
    /\ attempt = 0
    /\ sleeps = <<>>
    /\ fault_budget = faults
    /\ run_no = 1
    /\ results_before = <<>>
    /\ Sender(NoEmailConfig)
    /\ mail_entry = "send_analysis_results"

SummaryNext == FinishRun

SummarySpec == SummaryInit /\ [][SummaryNext]_vars

(***************************************************************************)
(* Notions the properties below are stated with.                           *)
(***************************************************************************)
\* The failure kind of a message: quota before rate limit (lines 976, 995).
Kind(msg) ==
    IF _is_quota_exceeded_error(msg) THEN "QuotaExceeded"
    ELSE IF _is_rate_limit_error(msg) THEN "RateLimited"
    ELSE "Transient"

Failed(o) == o.mode \in {"error", "raise"}

RECURSIVE SumDur(_)
SumDur(s) == IF s = <<>> THEN 0 ELSE Head(s).dur + SumDur(Tail(s))

\* The total wait between attempt k (0-based) of the current job and the next one.
WaitAfter(k) == SumDur(SelectSeq(sleeps, LAMBDA w : w.after = k))

\* The job identifiers of a list of results, in order.
Symbols(rs) == [k \in 1..Len(rs) |-> rs[k].symbol]

\* The positions of the results that belong to job j.
OutcomesOf(j) == {k \in 1..Len(results) : results[k].symbol = symbols[j]}

(***************************************************************************)
(* C1..C10                                                                 *)
(***************************************************************************)
\* C1: once the breaker is open, no job after the one that opened it is
\* submitted to the engine, and each of them has a skipped placeholder in
\* the results.
C1_OpenBreakerStopsSubmission ==
    tripped =>
        /\ \A j \in called : j <= trip_job
        /\ \A j \in (trip_job + 1)..Len(symbols) :
               \E k \in OutcomesOf(j) : results[k].error = PlaceholderError

\* C2: when the run has returned, the results hold exactly one outcome for
\* every input job.
C2_OneOutcomePerJob ==
    pc = "done" =>
        \A j \in 1..Len(symbols) : Cardinality(OutcomesOf(j)) = 1

\* C3: when the run has returned, the job identifiers of the results are the
\* input job list, in the same order.
C3_ResultsInInputOrder ==
    pc = "done" => Symbols(results) = symbols

\* C4: a job whose first attempt fails with a quota-exceeded message is
\* attempted once, is finalized as a quota failure, and trips the breaker,
\* whether the failure is returned or raised.
C4_QuotaFailureAttemptedOnce ==
    (attempts # <<>> /\ Failed(attempts[1]) /\ Kind(attempts[1].msg) = "QuotaExceeded") =>
        /\ Len(attempts) = 1
        /\ pc # "attempt"
        /\ result.error = QuotaError(attempts[1].msg)
        /\ (stop_on_quota_exceeded /\ pc \notin {"attempt", "returned"}) => tripped

\* Every attempt of the current job so far has failed with a transient error.
AllTransient ==
    /\ attempts # <<>>
    /\ \A k \in 1..Len(attempts) :
           Failed(attempts[k]) /\ Kind(attempts[k].msg) = "Transient"

\* C5: a job whose every attempt fails with a transient error is attempted
\* exactly max_retries + 1 times and is finalized as failed with the last
\* error message.
C5_TransientExhaustsRetries ==
    AllTransient =>
        /\ Len(attempts) <= max_retries + 1
        /\ pc = "attempt" => Len(attempts) <= max_retries
        /\ pc = "returned" =>
               /\ Len(attempts) = max_retries + 1
               /\ result.error # None
               /\ result.error =
                      <<"still failing after retries: ", ToString(max_retries)>>
                      \o attempts[Len(attempts)].msg

C5_Witness ==
    /\ pc = "returned"
    /\ AllTransient
    /\ max_retries >= 1
    /\ Len(attempts) = max_retries + 1

C7_Scenario ==
    /\ max_retries = 2
    /\ delay_between_requests = 1
    /\ pc = "returned"
    /\ Len(attempts) = 3
    /\ Failed(attempts[1]) /\ Kind(attempts[1].msg) = "RateLimited"
    /\ Failed(attempts[2]) /\ Kind(attempts[2].msg) = "RateLimited"
    /\ attempts[3].mode = "ok"

C8_FiveJobScenario ==
    (/\ pc = "done"
     /\ Len(symbols) = 5
     /\ max_concurrent = 2
     /\ stop_on_quota_exceeded
     /\ fault_jobs = {3}
     /\ Failed(first_fault) /\ Kind(first_fault.msg) = "QuotaExceeded"
     /\ tripped /\ trip_job = 3) =>
        /\ Len(results) = 5
        /\ Symbols(results) = <<1, 2, 3, 4, 5>>
        /\ results[1].error = None /\ results[2].error = None
        /\ results[3].error # None /\ Kind(results[3].error) = "QuotaExceeded"
        /\ results[4].error = PlaceholderError
        /\ results[5].error = PlaceholderError
        /\ batch_result.successful_analyses = 2
        /\ batch_result.summary.rate_num = 40 * batch_result.summary.rate_den

\* C9: a failed attempt whose message contains a quota-exhaustion keyword
\* gets the quota handling (the job is finalized at once as a quota failure,
\* without a wait) and never the rate-limit handling.
C9_QuotaHandlingApplied ==
    \A k \in 1..Len(attempts) :
        (/\ Failed(attempts[k])
         /\ \E n \in 1..Len(attempts[k].msg) :
                Lower(attempts[k].msg[n]) \in quota_exceeded_indicators) =>
            /\ k = Len(attempts)
            /\ pc # "attempt"
            /\ result.error = QuotaError(attempts[k].msg)
            /\ \A n \in 1..Len(sleeps) : sleeps[n].after # k - 1

\* C10: an authentication failure on a configuration ends send_email with
\* failure; no later configuration is attempted.
C10_AuthFailureStops ==
    \A k \in 1..Len(tried) :
        tried[k].outcome = "auth_failure" =>
            /\ k = Len(tried)
            /\ mail_pc = "returned"
            /\ mail_ret = "False"

C10_Witness ==
    /\ Len(configs) = 3
    /\ Len(tried) = 1
    /\ tried[1].outcome = "auth_failure"
    /\ mail_pc = "returned"

\* C11: send_email returns True exactly when some configuration succeeds;
\* the successful configuration is the last one attempted, and every
\* configuration before it in the list was tried once and failed with a
\* transient (non-authentication) failure.
C11_SuccessAfterTransientFailures ==
    /\ (mail_ret = "True") <=>
           (\E k \in 1..Len(tried) : tried[k].outcome = "success")
    /\ \A k \in 1..Len(tried) :
           tried[k].outcome = "success" =>
               /\ k = Len(tried)
               /\ mail_pc = "returned"
               /\ k <= Len(configs)
               /\ tried[k].name = configs[k].name
               /\ \A j \in 1..(k - 1) :
                      /\ tried[j].outcome = "transient_failure"
                      /\ tried[j].name = configs[j].name

C11_Witness ==
    /\ Len(configs) = 3
    /\ Len(tried) = 2
    /\ tried[1].outcome = "transient_failure"
    /\ tried[2].outcome = "success"
    /\ mail_pc = "returned"
    /\ mail_ret = "True"

\* C12: the configurations are attempted in list order, one attempt each:
\* the k-th attempt of a send is on the k-th configuration of the list, and
\* the configuration tried next is the one right after the last one tried.
C12_ConfigsTriedInOrder ==
    /\ Len(tried) <= Len(configs)
    /\ \A k \in 1..Len(tried) :
           /\ tried[k].name = configs[k].name
           /\ tried[k].port = configs[k].port
    /\ mail_pc = "try" => cfg_idx = Len(tried) + 1

C12_Witness ==
    /\ Len(configs) = 3
    /\ Len(tried) = 3
    /\ \A k \in 1..3 : tried[k].outcome = "transient_failure"
    /\ mail_pc = "returned"
    /\ mail_ret = "False"

\* C13: run_batch_analysis always ends (until it has ended, a next step is
\* possible), and when it has returned, every input job has an outcome in
\* the results.
C13_EndsWithAnOutcomePerJob ==
    /\ pc \notin {"done", "raised"} => ENABLED Next
    /\ pc = "done" => \A j \in 1..Len(symbols) : OutcomesOf(j) # {}

\* C14: run_batch_analysis does not raise, whatever the job list and the
\* engine failures; it always gets to return a result.
C14_NeverRaises ==
    /\ pc # "raised"
    /\ pc = "done" => batch_result.returned

\* C15: once the run result is built, the delivery attempt leaves it alone:
\* no step taken after it is built changes the result, the stored per-job
\* outcomes or the succeeded/failed counters.
C15_DeliveryLeavesResult ==
    [][batch_result.returned =>
           /\ batch_result' = batch_result
           /\ results' = results
           /\ successful' = successful
           /\ failed' = failed]_vars

C15_Witness ==
    /\ pc = "done"
    /\ batch_result.returned
    /\ batch_result.failed_analyses = 1
    /\ batch_result.successful_analyses = 1
    /\ mail_pc = "returned"
    /\ mail_ret = "False"
    /\ Len(tried) = 3
    /\ \A k \in 1..3 : tried[k].outcome = "transient_failure"

\* C16: a job is submitted to the retry loop once, the engine is called at
\* most max_retries + 1 times for it, and the calls are numbered from 0: the
\* call about to be made has as attempt index the number of calls made so far.
C16_AtMostMaxRetriesPlusOneCalls ==
    /\ Len(attempts) <= max_retries + 1
    /\ pc = "attempt" => attempt = Len(attempts)
    /\ pc = "loop" => global_idx \notin called

C16_Witness ==
    /\ pc = "returned"
    /\ max_retries >= 1
    /\ Len(attempts) = max_retries + 1
    /\ global_idx >= 2

\* C17: a failed attempt, of whatever index, that is classified QuotaExceeded
\* is the job's last attempt, and no backoff wait follows it.
C17_QuotaAttemptIsLast ==
    \A k \in 1..Len(attempts) :
        (Failed(attempts[k]) /\ Kind(attempts[k].msg) = "QuotaExceeded") =>
            /\ Len(attempts) <= k
            /\ pc = "attempt" => attempt < k
            /\ WaitAfter(k - 1) = 0

\* The last attempt of the current job failed with a quota-classified message.
TerminalQuotaFailure ==
    /\ attempts # <<>>
    /\ Failed(attempts[Len(attempts)])
    /\ Kind(attempts[Len(attempts)].msg) = "QuotaExceeded"

\* The step that handles the current job's result takes the quota branch.
TripsNow ==
    /\ tripped'
    /\ pc' = "batch_end"
    /\ results' # Append(results, result)

C19_NoPacingAfterTrip ==
    tripped => \A k \in 1..Len(pacing) : pacing[k].job < trip_job

\* The inter-job waits made after job g.
JobWaits(g) ==
    SelectSeq(pacing, LAMBDA w : w.kind = "job" /\ w.job = g)

\* Job g has been finalized and its result handled.
Completed(g) ==
    \/ g < global_idx
    \/ g = global_idx /\ pc \in {"batch_end", "finish", "done"}

\* Job g is the last job of its batch.
LastOfBatch(g) ==
    g % batch_size = 0 \/ g = Len(symbols)

\* C20: while the breaker is closed, each completed job that is not the
\* last of its batch is followed by exactly one inter-job wait, of
\* delay_between_requests, made before the next job starts; the last job of
\* a batch and jobs not yet completed are followed by none.
C20_OneWaitBetweenJobsOfABatch ==
    (~tripped /\ pc \notin {"ready", "raised"}) =>
        \A g \in 1..Len(symbols) :
            JobWaits(g) =
                IF Completed(g) /\ ~LastOfBatch(g)
                THEN <<Pace("job", g, delay_between_requests)>>
                ELSE <<>>

C20_Witness ==
    /\ ~tripped
    /\ pc = "done"
    /\ max_concurrent = 2
    /\ Len(symbols) = 3
    /\ failed = 1
    /\ successful = 2
    /\ JobWaits(1) # <<>>
    /\ JobWaits(2) = <<>>

\* The batch job g belongs to.
BatchOf(g) == (g - 1) \div batch_size + 1

\* The inter-batch waits made after batch b.
BatchWaits(b) ==
    SelectSeq(pacing, LAMBDA w : w.kind = "batch" /\ BatchOf(w.job) = b)

\* C21: every batch that has ended and is not the last one is followed by
\* exactly one inter-batch wait, of delay_between_requests *
\* batch_delay_multiplier, made before the next batch starts; the last batch
\* is followed by none.
C21_OneWaitBetweenBatches ==
    pc \notin {"ready", "raised"} =>
        /\ batch_idx <= NumBatches
        /\ \A b \in 1..NumBatches :
               /\ Len(BatchWaits(b)) = IF b < batch_idx THEN 1 ELSE 0
               /\ \A k \in 1..Len(BatchWaits(b)) :
                      BatchWaits(b)[k].dur =
                          delay_between_requests * batch_delay_multiplier

C21_Witness ==
    /\ pc = "done"
    /\ NumBatches = 3
    /\ Len(BatchWaits(1)) = 1
    /\ Len(BatchWaits(2)) = 1
    /\ BatchWaits(3) = <<>>

RECURSIVE Concat(_)
\* The concatenation of a sequence of sequences.
Concat(ss) == IF ss = <<>> THEN <<>> ELSE Head(ss) \o Concat(Tail(ss))

\* C22: for a non-empty job list, every batch but the last has
\* min(max_concurrent, job count) jobs, the last has between 1 and that many,
\* and the batches concatenated in order are the job list.
C22_BatchesPartitionTheJobList ==
    symbols # <<>> =>
        /\ symbol_batches # <<>>
        /\ \A b \in 1..(Len(symbol_batches) - 1) :
               Len(symbol_batches[b]) = Min(max_concurrent, Len(symbols))
        /\ Len(symbol_batches[Len(symbol_batches)]) >= 1
        /\ Len(symbol_batches[Len(symbol_batches)]) <=
               Min(max_concurrent, Len(symbols))
        /\ Concat(symbol_batches) = symbols

C22_Witness ==
    /\ pc = "attempt"
    /\ Len(symbols) = 5
    /\ max_concurrent = 2
    /\ Len(symbol_batches) = 3
    /\ batch_idx = 3
    /\ symbol_batches[3] = <<5>>
    /\ symbol = 5

\* The jobs that have been submitted to the engine and whose retry loop has
\* not returned yet.
InProgress ==
    {g \in called : g >= global_idx /\ pc = "attempt"}

\* C23: jobs are processed one at a time, in input order: at most one job
\* is inside its retry loop, no job later than the current one has been
\* submitted to the engine, and when a job is about to be started every job
\* submitted before it is an earlier job whose retry loop has returned.
C23_OneJobAtATime ==
    pc \notin {"ready", "raised"} =>
        /\ Cardinality(InProgress) <= 1
        /\ \A g \in called : g <= global_idx
        /\ pc = "loop" => \A g \in called : g < global_idx

C23_Witness ==
    /\ max_concurrent = 2
    /\ pc = "attempt"
    /\ i = 2
    /\ batch_idx = 2
    /\ Len(attempts) = 1
    /\ InProgress = {4}
    /\ called = {1, 2, 3, 4}

\* C24: an attempt that returns without error is the job's last attempt:
\* the job is finalized with that result, with no further attempt and no
\* wait after it.
C24_SuccessEndsTheRetryLoop ==
    \A k \in 1..Len(attempts) :
        attempts[k].mode = "ok" =>
            /\ k = Len(attempts)
            /\ pc # "attempt"
            /\ result.error = None
            /\ pc = "returned" => result.symbol = symbol
            /\ WaitAfter(k - 1) = 0

C24_Witness ==
    /\ pc = "returned"
    /\ max_retries = 2
    /\ Len(attempts) = 2
    /\ Failed(attempts[1])
    /\ attempts[2].mode = "ok"
    /\ result.error = None

\* C25: from the step that trips the breaker on, the results recorded so far
\* stay an unchanged prefix of the results, the run does not raise, and
\* when it returns, the returned result holds those results.
C25_TripPreservesResults ==
    [][tripped' =>
           /\ Len(results') >= Len(results)
           /\ SubSeq(results', 1, Len(results)) = results
           /\ pc' # "raised"
           /\ pc' = "done" =>
                  /\ batch_result'.returned
                  /\ batch_result'.results = results']_vars

C25_Witness ==
    /\ pc = "done"
    /\ tripped
    /\ trip_job = 3
    /\ Len(symbols) = 4
    /\ Len(results) = 3
    /\ results[1].error = None
    /\ results[2].error # None
    /\ results[3].error = PlaceholderError
    /\ batch_result.results = results

\* Every configuration attempted by the call so far ended in a transient failure.
OnlyTransientFailures ==
    /\ tried # <<>>
    /\ \A k \in 1..Len(tried) : tried[k].outcome = "transient_failure"

\* C26: a send_email call that returns after transient failures only has
\* attempted every configuration of the list once, in order, returns False,
\* and its final error report lists exactly the configurations tried.
C26_ExhaustionReportsWhatWasTried ==
    /\ (mail_pc = "returned" /\ OnlyTransientFailures) =>
           /\ mail_ret = "False"
           /\ Len(tried) = Len(configs)
           /\ \A k \in 1..Len(tried) : tried[k].name = configs[k].name
           /\ reported = [k \in 1..Len(tried) |->
                              [name |-> tried[k].name, port |-> tried[k].port]]
    /\ reported # <<>> => (mail_pc = "returned" /\ OnlyTransientFailures)

C26_Witness ==
    /\ mail_pc = "returned"
    /\ OnlyTransientFailures
    /\ Len(configs) = 3
    /\ Len(reported) = 3
    /\ reported[2].port = 25
    /\ tried[1].step = "connect"
    /\ tried[3].step = "login"

\* The position of step x in the step sequence s (0 when it is not there).
Pos(s, x) ==
    IF \E n \in 1..Len(s) : s[n] = x
    THEN CHOOSE n \in 1..Len(s) : s[n] = x
    ELSE 0

\* The steps begun by the k-th attempt of the call: all of them on success,
\* those up to the step that raised otherwise.
StepsBegun(k) ==
    IF tried[k].outcome = "success"
    THEN Steps(configs[k])
    ELSE SubSeq(Steps(configs[k]), 1, Pos(Steps(configs[k]), tried[k].step))

\* The steps of the k-th attempt that ended without raising.
StepsPassed(k) ==
    IF tried[k].outcome = "success"
    THEN Steps(configs[k])
    ELSE SubSeq(StepsBegun(k), 1, Len(StepsBegun(k)) - 1)

\* C27: an attempt begins with connect; starttls is called only on a
\* configuration with use_tls set and use_ssl unset, after connect and before
\* login; send_message is called only after login has passed on the same
\* configuration; and the payload is transmitted exactly by the attempts
\* whose send_message passed.
C27_StepsInOrder ==
    /\ \A k \in 1..Len(tried) :
           LET begun == StepsBegun(k)
               passed == StepsPassed(k)
           IN  /\ begun # <<>>
               /\ begun[1] = "connect"
               /\ Pos(begun, "starttls") # 0 =>
                      /\ configs[k].use_tls /\ ~configs[k].use_ssl
                      /\ Pos(begun, "starttls") = 2
               /\ (Pos(begun, "login") # 0
                    /\ configs[k].use_tls /\ ~configs[k].use_ssl) =>
                      Pos(passed, "starttls") # 0
               /\ Pos(begun, "login") # 0 =>
                      Pos(begun, "login") > Pos(begun, "starttls")
               /\ Pos(begun, "send_message") # 0 =>
                      /\ Pos(passed, "login") # 0
                      /\ Pos(passed, "login") < Pos(begun, "send_message")
    /\ transmitted =
           Cardinality({k \in 1..Len(tried) : Pos(StepsPassed(k), "send_message") # 0})

C27_Witness ==
    /\ mail_pc = "returned"
    /\ Len(tried) = 3
    /\ tried[1].step = "login"
    /\ tried[2].step = "send_message"
    /\ tried[3].outcome = "success"
    /\ Pos(StepsPassed(3), "starttls") = 2
    /\ transmitted = 1

\* C28: the summary of a results list without a successful result, the
\* empty list included, is the no-success marker, computed without any
\* division; every other summary is computed with non-zero divisors only.
C28_SummaryNeverDividesByZero ==
    pc = "done" =>
        LET s == batch_result.summary
            none_ok == \A k \in 1..Len(results) : results[k].error # None
        IN  /\ none_ok <=> (s.error = NoSuccessMarker)
            /\ none_ok => s.divisors = <<>>
            /\ ~none_ok => s.error = None /\ s.divisors # <<>>
            /\ \A d \in 1..Len(s.divisors) : s.divisors[d] > 0

C28_Witness ==
    /\ pc = "done"
    /\ results = <<>>
    /\ batch_result.summary.error = NoSuccessMarker
    /\ batch_result.summary.divisors = <<>>

\* The positions in rs of the successful results that have a price range.
Ranked(rs) ==
    {k \in 1..Len(rs) :
        rs[k].error = None /\ rs[k].price_stats.price_range # <<>>}

\* The position in rs of the ranked result of symbol s (0 when there is none).
PositionOf(rs, s) ==
    IF \E k \in Ranked(rs) : rs[k].symbol = s
    THEN CHOOSE k \in Ranked(rs) : rs[k].symbol = s
    ELSE 0

\* C29: top_price_ranges holds at most 5 entries, each the range of a
\* different successful job that has one; they are in non-increasing order
\* of the key 'max', equal keys in job order; and no job left out has a
\* higher key than a job in the ranking, or an equal key and an earlier
\* place in the job list.
C29_TopRangesRanked ==
    (pc = "done" /\ batch_result.summary.error = None) =>
        LET top == batch_result.summary.top_price_ranges
            pos(e) == PositionOf(results, e.symbol)
            chosen == {PositionOf(results, top[a].symbol) : a \in 1..Len(top)}
        IN  /\ Len(top) <= 5
            /\ Len(top) = Min(5, Cardinality(Ranked(results)))
            /\ \A a \in 1..Len(top) :
                   /\ pos(top[a]) \in Ranked(results)
                   /\ \A b \in 1..Len(top) : a # b => pos(top[a]) # pos(top[b])
                   /\ top[a].max = results[pos(top[a])].price_stats.price_range[1].max
                   /\ top[a].min = results[pos(top[a])].price_stats.price_range[1].min
            /\ \A a, b \in 1..Len(top) :
                   a < b =>
                       /\ top[a].max >= top[b].max
                       /\ top[a].max = top[b].max => pos(top[a]) < pos(top[b])
            /\ \A k \in Ranked(results) \ chosen : \A a \in 1..Len(top) :
                   /\ top[a].max >= results[k].price_stats.price_range[1].max
                   /\ top[a].max = results[k].price_stats.price_range[1].max =>
                          pos(top[a]) < k

C29_Witness ==
    /\ pc = "done"
    /\ Len(results) = 6
    /\ Ranked(results) = 1..6
    /\ results[1].price_stats.price_range[1].max = 1
    /\ results[2].price_stats.price_range[1].max = 2
    /\ results[6].price_stats.price_range[1].max = 2
    /\ Len(batch_result.summary.top_price_ranges) = 5
    /\ batch_result.summary.top_price_ranges[1].symbol = 2

\* C30: the step that computes the summary leaves self.results as it was,
\* and the run result built from it holds that same list.
C30_SummaryLeavesResults ==
    [][pc = "finish" =>
           /\ results' = results
           /\ batch_result'.results = results
           /\ batch_result'.summary = _generate_summary(results)]_vars

C30_Witness ==
    /\ pc = "done"
    /\ Len(results) = 3
    /\ results[1].error # None
    /\ results[2].price_stats.price_range # <<>>
    /\ results[3].error = None
    /\ batch_result.results = results
    /\ batch_result.summary.total_analyzed = 2

\* C31: in the returned run result, successful_analyses is the number of
\* results without an error, failed_analyses the number of results with an
\* error, and the two add up to total_symbols.
C31_CountersMatchResults ==
    pc = "done" =>
        /\ batch_result.successful_analyses =
               Cardinality({k \in 1..Len(batch_result.results) :
                               batch_result.results[k].error = None})
        /\ batch_result.failed_analyses =
               Cardinality({k \in 1..Len(batch_result.results) :
                               batch_result.results[k].error # None})
        /\ batch_result.successful_analyses + batch_result.failed_analyses =
               batch_result.total_symbols

\* C32: with stop_on_quota_exceeded unset the quota branch is never taken;
\* when the run returns every job has been submitted to the engine and the
\* results hold one outcome per job, in input order.
C32_DisabledBreakerNeverHalts ==
    ~stop_on_quota_exceeded =>
        /\ ~tripped
        /\ pc = "done" =>
               /\ called = 1..Len(symbols)
               /\ Symbols(results) = symbols
               /\ \A k \in 1..Len(results) : results[k].error # PlaceholderError

C32_Witness ==
    /\ ~stop_on_quota_exceeded
    /\ pc = "done"
    /\ Len(symbols) = 3
    /\ results[1].error # None
    /\ Kind(results[1].error) = "QuotaExceeded"
    /\ results[2].error = None
    /\ results[3].error = None

\* C33: within one send_email call the message is handed to send_message
\* successfully at most once, whatever happens when the connection is closed.
C33_TransmittedAtMostOnce ==
    transmitted <= 1

\* C34: when send_email has returned, every connection it opened has been
\* closed, and while it runs at most the connection of the configuration
\* being tried is open.
C34_NoConnectionLeftOpen ==
    /\ mail_pc = "returned" => open_conns = 0
    /\ mail_pc = "try" => open_conns = 0

\* C35: a second call of run_batch_analysis on the same instance starts with
\* an empty results list, so that the results it returns are the outcomes of
\* its own jobs only, and with the quota branch not yet taken.
C35_SecondRunStartsClean ==
    run_no = 2 =>
        /\ results_before = <<>>
        /\ pc = "loop" /\ called = {} => ~tripped
        /\ pc = "done" =>
               batch_result.results =
                   SubSeq(results, Len(results_before) + 1, Len(results))

\* C36: when a run with at least one success has returned, the success rate
\* stored in the summary equals the success rate of the report, which is
\* successful_analyses over total_symbols.
C36_SummaryRateIsReportRate ==
    (pc = "done" /\ batch_result.successful_analyses >= 1) =>
        batch_result.summary.rate_num * success_rate(batch_result).den =
            success_rate(batch_result).num * batch_result.summary.rate_den

\* C37: the sender is enabled exactly when the enabled flag is set and
\* server, user name, password, sender address and recipient list are all
\* non-empty; on a disabled sender send_email and send_analysis_results
\* return False and no connection is attempted.
C37_DisabledSenderRefuses ==
    /\ enabled <=>
           /\ email_config.enabled
           /\ Len(email_config.smtp_server) > 0
           /\ email_config.smtp_username # ""
           /\ email_config.smtp_password # ""
           /\ email_config.from_email # ""
           /\ Len(email_config.to_emails) > 0
    /\ ~enabled =>
           /\ mail_pc \in {"idle", "returned"}
           /\ mail_pc = "returned" => mail_ret = "False"
           /\ tried = <<>>
           /\ transmitted = 0
           /\ open_conns = 0

C37_Witness ==
    /\ email_config.enabled
    /\ email_config.to_emails = <<>>
    /\ ~enabled
    /\ mail_entry = "send_analysis_results"
    /\ mail_pc = "returned"
    /\ mail_ret = "False"

\* C38: from the head of the loop on, the candidate list of a send_email call
\* is determined by the sender alone.  For a server name containing
\* "163.com" it is 465 with SSL, 25 unencrypted, 587 with TLS, in this order,
\* whatever port and security mode are configured; for any other server it
\* is the configured port and mode alone, and at most one connection is
\* attempted.  Every attempt is made with the entry of the list at its
\* position.
C38_CandidateConfigsFixed ==
    (enabled /\ mail_pc # "idle") =>
        LET modes == [k \in 1..Len(configs) |->
                          <<configs[k].port, configs[k].use_ssl, configs[k].use_tls>>]
            is163 == \E k \in 1..Len(smtp_server) : smtp_server[k] = "163.com"
        IN  /\ is163 =>
                   modes = << <<465, TRUE, FALSE>>, <<25, FALSE, FALSE>>,
                              <<587, FALSE, TRUE>> >>
            /\ ~is163 =>
                   /\ modes = << <<smtp_port, use_ssl, use_tls>> >>
                   /\ Len(tried) <= 1
            /\ Len(tried) <= Len(configs)
            /\ \A k \in 1..Len(tried) : tried[k].port = configs[k].port

C38_Witness ==
    /\ enabled
    /\ mail_pc = "returned"
    /\ smtp_server = Server163
    /\ smtp_port = 587 /\ use_tls /\ ~use_ssl
    /\ Len(tried) = 3
    /\ tried[1].port = 465
    /\ tried[2].port = 25
    /\ tried[3].port = 587
    /\ mail_ret = "True"

RECURSIVE SumOver(_, _)
\* The sum of the values of the dict f over the keys S.
SumOver(f, S) ==
    IF S = {} THEN 0
    ELSE LET x == CHOOSE y \in S : TRUE
         IN  f[x] + SumOver(f, S \ {x})

\* C39: in a returned summary that is not the no-successes marker, every
\* market count is the number of error-free results of that market, the
\* counts add up to total_analyzed, and total_analyzed is the number of
\* error-free results; results with an error are counted nowhere.
C39_CategoryCountsSumToTotal ==
    (pc = "done" /\ batch_result.summary.error = None) =>
        LET s == batch_result.summary
            rs == batch_result.results
            okset == {k \in 1..Len(rs) : rs[k].error = None}
        IN  /\ s.total_analyzed = Cardinality(okset)
            /\ SumOver(s.market_distribution, DOMAIN s.market_distribution) =
                   s.total_analyzed
            /\ DOMAIN s.market_distribution = {rs[k].market_type : k \in okset}
            /\ \A m \in DOMAIN s.market_distribution :
                   s.market_distribution[m] =
                       Cardinality({k \in okset : rs[k].market_type = m})

C39_Witness ==
    /\ pc = "done"
    /\ batch_result.summary.error = None
    /\ Len(batch_result.results) = 5
    /\ batch_result.results[1].error # None
    /\ batch_result.results[1].error # PlaceholderError
    /\ batch_result.results[3].error = PlaceholderError
    /\ batch_result.summary.total_analyzed = 2
    /\ \E m \in DOMAIN batch_result.summary.market_distribution :
           batch_result.summary.market_distribution[m] = 2

====
